---- MODULE Spec2Model ----
(***************************************************************************)
(* Weak-acid equilibrium calculator (src/chem_equilibrium.py).             *)
(*                                                                         *)
(* WeakAcidSystem.solve_equilibrium works on Python floats, i.e. IEEE-754  *)
(* binary64 numbers.  The model computes with the same numbers: a float is *)
(* a sign, a 53-bit significand and an exponent (or an infinity, or NaN),  *)
(* and every operation is the exact result rounded to nearest, ties to     *)
(* even.  Significands are wider than TLC's integers, so they are kept as  *)
(* sequences of limbs (least significant first).                           *)
(***************************************************************************)
EXTENDS Integers, Sequences, FiniteSets, TLC

\* ------------------------------------------------------------------------
\* Val({e(v) : v \in {d}}) is e(d) with d evaluated once and v bound to its
\* value; the operators below bind their arguments and their intermediate
\* results this way, so that none is computed more than once.
\* ------------------------------------------------------------------------
Val(S) == CHOOSE v \in S : TRUE

Max(i, j) == IF i >= j THEN i ELSE j

Min(i, j) == IF i <= j THEN i ELSE j

\* ------------------------------------------------------------------------
\* Natural numbers of arbitrary size: limbs in base 2^15, least significant
\* first, no leading (highest) zero limb; <<>> is 0.
\* ------------------------------------------------------------------------
\* a limb product and a carry fit TLC's 32-bit integers
LimbBits == 16 - 1

Base == 2^LimbBits

Limb(a, i) == IF i >= 1 /\ i <= Len(a) THEN a[i] ELSE 0

RECURSIVE BTrimR(_, _)
BTrimR(a, n) ==
  IF n = 0 THEN <<>>
  ELSE IF a[n] = 0 THEN BTrimR(a, n - 1) ELSE SubSeq(a, 1, n)

BTrim(a) == Val({BTrimR(u, Len(u)) : u \in {a}})

BSmall(n) == IF n = 0 THEN <<>> ELSE IF n < Base THEN <<n>> ELSE <<n % Base, n \div Base>>

RECURSIVE BAddR(_, _, _, _)
BAddR(a, b, i, c) ==
  IF i > Len(a) /\ i > Len(b)
  THEN (IF c = 0 THEN <<>> ELSE <<c>>)
  ELSE Val({<<s % Base>> \o BAddR(a, b, i + 1, s \div Base) :
              s \in {Limb(a, i) + Limb(b, i) + c}})

BAdd(a, b) == Val({BAddR(u, v, 1, 0) : u \in {a}, v \in {b}})

\* a - b for a >= b
RECURSIVE BSubR(_, _, _, _)
BSubR(a, b, i, c) ==
  IF i > Len(a) THEN <<>>
  ELSE Val({IF s < 0 THEN <<s + Base>> \o BSubR(a, b, i + 1, 1)
            ELSE <<s>> \o BSubR(a, b, i + 1, 0) :
              s \in {a[i] - Limb(b, i) - c}})

BSub(a, b) == Val({BTrim(BSubR(u, v, 1, 0)) : u \in {a}, v \in {b}})

\* -1, 0, 1 as a < b, a = b, a > b
RECURSIVE BCmpR(_, _, _)
BCmpR(a, b, i) ==
  IF i = 0 THEN 0
  ELSE IF a[i] < b[i] THEN -1
  ELSE IF a[i] > b[i] THEN 1
  ELSE BCmpR(a, b, i - 1)

BCmp(a, b) ==
  Val({IF Len(u) < Len(v) THEN -1
       ELSE IF Len(u) > Len(v) THEN 1
       ELSE BCmpR(u, v, Len(u)) : u \in {a}, v \in {b}})

\* a * d + c for one limb d (not trimmed)
RECURSIVE BMulLimbR(_, _, _, _)
BMulLimbR(a, d, i, c) ==
  IF i > Len(a) THEN (IF c = 0 THEN <<>> ELSE <<c>>)
  ELSE Val({<<p % Base>> \o BMulLimbR(a, d, i + 1, p \div Base) :
              p \in {a[i] * d + c}})

BMulLimb(a, d) == Val({BTrim(BMulLimbR(u, e, 1, 0)) : u \in {a}, e \in {d}})

RECURSIVE BMulR(_, _, _)
BMulR(a, b, j) ==
  IF j > Len(b) THEN <<>>
  ELSE Val({BAdd(BMulLimbR(a, b[j], 1, 0), IF rest = <<>> THEN <<>> ELSE <<0>> \o rest) :
              rest \in {BMulR(a, b, j + 1)}})

BMul(a, b) ==
  Val({IF u = <<>> \/ v = <<>> THEN <<>> ELSE BTrim(BMulR(u, v, 1)) : u \in {a}, v \in {b}})

RECURSIVE IntBitLen(_)
IntBitLen(n) == IF n = 0 THEN 0 ELSE 1 + IntBitLen(n \div 2)

BitLen(a) ==
  Val({IF u = <<>> THEN 0 ELSE LimbBits * (Len(u) - 1) + IntBitLen(u[Len(u)]) : u \in {a}})

\* bit i (bit 0 is the least significant)
BBit(a, i) ==
  IF i < 0 THEN 0 ELSE (Limb(a, (i \div LimbBits) + 1) \div 2^(i % LimbBits)) % 2

\* some bit below bit n is set
BLowNonZero(a, n) ==
  IF n <= 0 THEN FALSE
  ELSE LET q == n \div LimbBits
           r == n % LimbBits
       IN  \/ \E i \in 1..Min(q, Len(a)) : a[i] # 0
           \/ Limb(a, q + 1) % 2^r # 0

BShl(a, n) ==
  Val({IF u = <<>> THEN <<>>
       ELSE [i \in 1..(k \div LimbBits) |-> 0] \o BMulLimbR(u, 2^(k % LimbBits), 1, 0) :
         u \in {a}, k \in {n}})

BShr(a, n) ==
  Val({IF q >= Len(u) THEN <<>>
       ELSE BTrim([i \in 1..(Len(u) - q) |->
                     (u[i + q] \div 2^r) + (Limb(u, i + q + 1) % 2^r) * 2^(LimbBits - r)]) :
         u \in {a}, q \in {n \div LimbBits}, r \in {n % LimbBits}})

BIsOdd(a) == a # <<>> /\ a[1] % 2 = 1

\* floor(sqrt(n)) by the long-hand method in base 2^15: n is read two limbs
\* at a time from the top; s2 is twice the root found so far, r the
\* remainder, and the next digit d of the root is the largest with
\* (s2 * Base + d) * d <= r.  SqrtDigit builds d from its top bit down.
RECURSIVE SqrtDigit(_, _, _, _)
SqrtDigit(s2, r, d, j) ==
  IF j < 0 THEN d
  ELSE Val({SqrtDigit(s2, r, IF BCmp(BMulLimb(<<t>> \o s2, t), r) <= 0 THEN t ELSE d, k) :
              t \in {d + 2^j}, k \in {j - 1}})

RECURSIVE ISqrtR(_, _, _, _)
ISqrtR(n, i, s, r) ==
  IF i < 1 THEN s
  ELSE Val({Val({ISqrtR(n, k, BTrim(<<d>> \o s), BSub(r1, BMulLimb(<<d>> \o s2, d))) :
                   d \in {SqrtDigit(s2, r1, 0, LimbBits - 1)}}) :
              r1 \in {BTrim(<<n[i], n[i + 1]>> \o r)}, s2 \in {BAdd(s, s)}, k \in {i - 2}})

ISqrt(n) ==
  Val({ISqrtR(np, Len(np) - 1, <<>>, <<>>) :
         np \in {IF Len(n) % 2 = 0 THEN n ELSE n \o <<0>>}})

\* floor(n / d) for d # 0 by long division in base 2^15: n is read one limb
\* at a time from the top; q is the quotient so far and r the remainder, and
\* the next digit g of the quotient is the largest with g * d <= r.
RECURSIVE DivDigit(_, _, _, _)
DivDigit(d, r, g, j) ==
  IF j < 0 THEN g
  ELSE Val({DivDigit(d, r, IF BCmp(BMulLimb(d, t), r) <= 0 THEN t ELSE g, k) :
              t \in {g + 2^j}, k \in {j - 1}})

RECURSIVE BDivR(_, _, _, _, _)
BDivR(n, d, i, q, r) ==
  IF i < 1 THEN q
  ELSE Val({Val({BDivR(n, d, k, BTrim(<<g>> \o q), BSub(r1, BMulLimb(d, g))) :
                   g \in {DivDigit(d, r1, 0, LimbBits - 1)}}) :
              r1 \in {BTrim(<<n[i]>> \o r)}, k \in {i - 1}})

BDiv(n, d) == Val({BDivR(u, v, Len(u), <<>>, <<>>) : u \in {n}, v \in {d}})

\* ------------------------------------------------------------------------
\* IEEE-754 binary64, the Python float.  A float is a record
\*   [k |-> "fin", s |-> sign, m |-> significand, e |-> exponent]
\* of value (-1)^s * m * 2^e, with 2^52 <= m < 2^53 (normal) or e = EMin
\* and m < 2^52 (subnormal, zero); or k = "inf" (signed); or k = "nan".
\* ------------------------------------------------------------------------
Precision == 53

EMin == -1074

\* the largest finite float is below 2^(EMaxTop + 1)
EMaxTop == 1023

NaN == [k |-> "nan", s |-> 0, m |-> <<>>, e |-> 0]

Inf(s) == [k |-> "inf", s |-> s, m |-> <<>>, e |-> 0]

Zero(s) == [k |-> "fin", s |-> s, m |-> <<>>, e |-> EMin]

Fin(s, m, e) == [k |-> "fin", s |-> s, m |-> m, e |-> e]

IsNaN(x) == x.k = "nan"

IsInf(x) == x.k = "inf"

IsZero(x) == x.k = "fin" /\ x.m = <<>>

IsFinite(x) == x.k = "fin"

\* m * 2^e for m of at most Precision bits and e >= EMin: infinite when too big
Bounded(s, m, e) ==
  IF m = <<>> THEN Zero(s)
  ELSE IF e + BitLen(m) - 1 > EMaxTop THEN Inf(s)
  ELSE Fin(s, m, e)

\* q * 2^e, where q was cut to at most Precision bits and is to be rounded up
\* when up holds
RoundUp(s, q, e, up) ==
  Val({IF BitLen(q2) > Precision THEN Bounded(s, BShr(q2, 1), e + 1) ELSE Bounded(s, q2, e) :
         q2 \in {IF up THEN BAdd(q, <<1>>) ELSE q}})

\* (-1)^s * M * 2^E rounded to the nearest float, ties to even
Round(s, M, E) ==
  Val({IF Mv = <<>> THEN Zero(s)
       ELSE Val({IF e1 <= Ev
                 THEN Bounded(s, BShl(Mv, Ev - e1), e1)
                 ELSE Val({RoundUp(s, q, e1,
                                   BBit(Mv, e1 - Ev - 1) = 1
                                     /\ (BLowNonZero(Mv, e1 - Ev - 1) \/ BIsOdd(q))) :
                             q \in {BShr(Mv, e1 - Ev)}}) :
                   e1 \in {Max(Ev + BitLen(Mv) - Precision, EMin)}}) :
         Mv \in {M}, Ev \in {E}})

\* the float of a small integer n * 2^e (exact)
Float(s, n, e) == Round(s, BSmall(n), e)

FNeg(x) == Val({IF IsNaN(u) THEN u ELSE [u EXCEPT !.s = 1 - u.s] : u \in {x}})

FMul(x, y) ==
  Val({IF IsNaN(u) \/ IsNaN(v) THEN NaN
       ELSE IF (IsInf(u) /\ IsZero(v)) \/ (IsZero(u) /\ IsInf(v)) THEN NaN
       ELSE IF IsInf(u) \/ IsInf(v) THEN Inf((u.s + v.s) % 2)
       ELSE Round((u.s + v.s) % 2, BMul(u.m, v.m), u.e + v.e) :
         u \in {x}, v \in {y}})

\* operands further apart than this many binary places: the smaller one only
\* decides the direction of rounding
GuardShift == Precision + 11

\* hi + lo for finite hi, lo, neither zero, hi.e >= lo.e
FAddAligned(hi, lo) ==
  Val({IF hi.s = lo.s THEN Round(hi.s, BAdd(H, lo.m), lo.e)
       ELSE Val({IF c = 0 THEN Zero(0)
                 ELSE IF c > 0 THEN Round(hi.s, BSub(H, lo.m), lo.e)
                 ELSE Round(lo.s, BSub(lo.m, H), lo.e) :
                   c \in {BCmp(H, lo.m)}}) :
         H \in {BShl(hi.m, hi.e - lo.e)}})

FAddOrdered(hi, lo) ==
  IF hi.e - lo.e > GuardShift
  THEN FAddAligned(hi, Fin(lo.s, <<1>>, hi.e - GuardShift))
  ELSE FAddAligned(hi, lo)

FAdd(x, y) ==
  Val({IF IsNaN(u) \/ IsNaN(v) THEN NaN
       ELSE IF IsInf(u) /\ IsInf(v) THEN (IF u.s = v.s THEN u ELSE NaN)
       ELSE IF IsInf(u) THEN u
       ELSE IF IsInf(v) THEN v
       ELSE IF IsZero(u) /\ IsZero(v) THEN Zero(IF u.s = v.s THEN u.s ELSE 0)
       ELSE IF IsZero(u) THEN v
       ELSE IF IsZero(v) THEN u
       ELSE IF u.e >= v.e THEN FAddOrdered(u, v)
       ELSE FAddOrdered(v, u) :
         u \in {x}, v \in {y}})

FSub(x, y) == FAdd(x, FNeg(y))

\* -1, 0, 1 as |x| < |y|, |x| = |y|, |x| > |y|, for x and y not NaN
MagCmp(x, y) ==
  IF IsInf(x) \/ IsInf(y)
  THEN (IF IsInf(x) /\ IsInf(y) THEN 0 ELSE IF IsInf(x) THEN 1 ELSE -1)
  ELSE IF x.e # y.e THEN (IF x.e < y.e THEN -1 ELSE 1)
  ELSE BCmp(x.m, y.m)

\* -1, 0, 1 as x < y, x = y, x > y, for x and y not NaN (-0.0 = 0.0)
FCmp(x, y) ==
  Val({IF IsZero(u) /\ IsZero(v) THEN 0
       ELSE IF u.s # v.s THEN (IF u.s = 1 THEN -1 ELSE 1)
       ELSE IF u.s = 0 THEN MagCmp(u, v) ELSE MagCmp(v, u) :
         u \in {x}, v \in {y}})

FLt(x, y) == Val({~IsNaN(u) /\ ~IsNaN(v) /\ FCmp(u, v) < 0 : u \in {x}, v \in {y}})

FLe(x, y) == Val({~IsNaN(u) /\ ~IsNaN(v) /\ FCmp(u, v) <= 0 : u \in {x}, v \in {y}})

FGt(x, y) == FLt(y, x)

FEq(x, y) == Val({~IsNaN(u) /\ ~IsNaN(v) /\ FCmp(u, v) = 0 : u \in {x}, v \in {y}})

\* sqrt(m * 2^e) for m > 0: m is scaled by 2^k to 107 or 108 bits with e - k
\* even, so that the integer root has 54 bits; one more bit says whether the
\* root is exact
SqrtScaled(m, e, k) ==
  Val({Val({Round(0, BAdd(BShl(S, 1), IF BMul(S, S) = N THEN <<>> ELSE <<1>>),
                  ((e - k) \div 2) - 1) :
              S \in {ISqrt(N)}}) :
         N \in {BShl(m, k)}})

\* math.sqrt for an argument that is not negative (NaN, 0.0, -0.0 and inf
\* are returned as they are)
FSqrt(x) ==
  Val({IF IsNaN(u) \/ IsInf(u) \/ IsZero(u) THEN u
       ELSE Val({SqrtScaled(u.m, u.e, IF (u.e - k0) % 2 = 0 THEN k0 ELSE k0 + 1) :
                   k0 \in {2 * Precision + 1 - BitLen(u.m)}}) :
         u \in {x}})

\* x / y for finite x, y, neither zero, with sign sg
FDivFin(sg, x, y) ==
  Val({IF y.m = BShl(<<1>>, ly - 1)
       THEN \* the divisor is a power of two: the quotient is x scaled
            Round(sg, x.m, x.e - y.e - (ly - 1))
       ELSE Val({Val({Val({Round(sg, BAdd(BShl(Q, 1), IF BMul(Q, y.m) = N THEN <<>> ELSE <<1>>),
                                 x.e - k - y.e - 1) :
                             Q \in {BDiv(N, y.m)}}) :
                        N \in {BShl(x.m, k)}}) :
                   k \in {Precision + 2 + ly - BitLen(x.m)}}) :
         ly \in {BitLen(y.m)}})

\* x / y for y not zero (Python raises ZeroDivisionError for y = 0)
FDiv(x, y) ==
  Val({IF IsNaN(u) \/ IsNaN(v) THEN NaN
       ELSE IF IsInf(u) THEN (IF IsInf(v) THEN NaN ELSE Inf((u.s + v.s) % 2))
       ELSE IF IsInf(v) \/ IsZero(u) THEN Zero((u.s + v.s) % 2)
       ELSE FDivFin((u.s + v.s) % 2, u, v) :
         u \in {x}, v \in {y}})

\* ------------------------------------------------------------------------
\* WeakAcidSystem
\* ------------------------------------------------------------------------
One == Float(0, 1, 0)

Two == Float(0, 2, 0)

Four == Float(0, 4, 0)

PosZero == Zero(0)

None == [k |-> "none"]

WeakAcidSystem(c0, Ka) == [c0 |-> c0, Ka |-> Ka]

\* 0 <= x <= c0 (a chained comparison: False as soon as x or c0 is NaN)
\* a filter that forgets the upper bound: 0 <= x
PhysicalNoUpper(x, c0) == FLe(PosZero, x)

\* a filter that forgets the lower bound: x <= c0
PhysicalNoLower(x, c0) == FLe(x, c0)

Physical(x, c0) == FLe(PosZero, x) /\ FLe(x, c0)

\* [x for x in (x1, x2) if 0 <= x <= c0]
Candidates(x1, x2, c0) ==
  (IF Physical(x1, c0) THEN <<x1>> ELSE <<>>) \o
  (IF Physical(x2, c0) THEN <<x2>> ELSE <<>>)

\* max() of a list of one or two floats: the first element, unless the
\* second compares greater
PyMax(xs) == IF Len(xs) = 2 /\ FGt(xs[2], xs[1]) THEN xs[2] ELSE xs[1]

\* math.log10 raises ValueError("math domain error") for these arguments
Log10DomainError(x) == ~IsNaN(x) /\ FLe(x, PosZero)

\* -math.log10(x), kept as a term over x: its digits are not computed
NegLog10(x) == [fn |-> "-log10", of |-> x]

\* c = - self.Ka * self.c0
\* a constant term with the sign lost: c = Ka * c0
CoefficientCPositive(self) == FMul(self.Ka, self.c0)

CoefficientC(self) == FMul(FNeg(self.Ka), self.c0)

\* disc = b * b - 4 * a * c
Discriminant(a, b, c) == FSub(FMul(b, b), FMul(FMul(Four, a), c))

\* x1 = (-b + math.sqrt(disc)) / (2 * a)
RootPlus(a, b, disc) == FDiv(FAdd(FNeg(b), FSqrt(disc)), FMul(Two, a))

\* x2 = (-b - math.sqrt(disc)) / (2 * a)
RootMinus(a, b, disc) == FDiv(FSub(FNeg(b), FSqrt(disc)), FMul(Two, a))

\* The dictionary solve_equilibrium returns
ResultDict(h_conc, a_minus, ha) ==
  [key \in {"[H+]", "[A-]", "[HA]", "pH"} |->
     CASE key = "[H+]" -> h_conc
       [] key = "[A-]" -> a_minus
       [] key = "[HA]" -> ha
       [] key = "pH"   -> NegLog10(h_conc)]

\* How a call ended: its locals, its outcome ("return", or the ValueError
\* raised) and the value returned
Ended(disc, roots, candidates, outcome, value) ==
  [disc |-> disc, roots |-> roots, candidates |-> candidates,
   outcome |-> outcome, value |-> value]

\* from x = max(candidates) to the return
Finish(self, disc, roots, candidates, x) ==
  IF Log10DomainError(x)
  THEN Ended(disc, roots, candidates, "MathDomainError", None)
  ELSE Ended(disc, roots, candidates, "return", ResultDict(x, x, FSub(self.c0, x)))

\* from the candidates to the return
Select(self, disc, roots, candidates) ==
  IF candidates = <<>>
  THEN Ended(disc, roots, candidates, "NoPhysicalSolution", None)
  ELSE Val({Finish(self, disc, roots, candidates, x) : x \in {PyMax(candidates)}})

\* disc < 0
\* a discriminant test that also rejects a double root: disc <= 0
NoRealRootsOrDouble(disc) == FLe(disc, PosZero)

NoRealRoots(disc) == FLt(disc, PosZero)

\* from the discriminant to the return
SolveQuadratic(self, a, b, disc) ==
  IF NoRealRoots(disc)
  THEN Ended(disc, <<>>, <<>>, "NoRealSolution", None)
  ELSE Val({Val({Select(self, disc, <<x1, x2>>, candidates) :
                   candidates \in {Candidates(x1, x2, self.c0)}}) :
              x1 \in {RootPlus(a, b, disc)}, x2 \in {RootMinus(a, b, disc)}})

\* One call of WeakAcidSystem.solve_equilibrium
solve_equilibrium(self) ==
  Val({SolveQuadratic(self, One, self.Ka, disc) :
         disc \in {Discriminant(One, self.Ka, CoefficientC(self))}})

\* ------------------------------------------------------------------------
\* Inputs.  A line typed at a prompt is a sequence of characters for the
\* menu, and for float(input(...)) either text that float() rejects or the
\* float it denotes.
\* ------------------------------------------------------------------------
\* the grid of powers of two 2^(9j), j in -GridExp..GridExp
GridExp == 3

Grid == {Float(0, 1, 9 * j) : j \in (-GridExp)..GridExp}

\* 0.1 = 0x1.999999999999ap-4 and 1.8e-5 = 0x1.2dfd694ccab3fp-16
Tenth == [k |-> "fin", s |-> 0, m |-> <<6554, 13107, 26214, 204>>, e |-> -56]

AceticKa == [k |-> "fin", s |-> 0, m |-> <<11071, 10649, 32602, 150>>, e |-> -68]

Half == Float(0, 1, -1)

MinSubnormal == Float(0, 1, EMin)

\* finite, positive: the precondition domain of the solver
PositiveFloats ==
  Grid \cup {Tenth, AceticKa, Half, MinSubnormal,
             Float(0, 7, -16), Float(0, 7, 10), Float(0, 1, 13),
             Float(0, 7, -29), Float(0, 5, 23)}

OtherFloats == {PosZero, Float(1, 1, 0), Float(1, 1, -9), Inf(0), NaN}

Floats == PositiveFloats \cup OtherFloats

ConsoleLines ==
  {[numeric |-> FALSE, val |-> None]} \cup {[numeric |-> TRUE, val |-> f] : f \in Floats}

ChoiceLines == {<<"1">>, <<" ", "1", " ">>, <<"0">>, <<"0", " ">>, <<"2">>, <<"1", "0">>, <<>>}

\* str.strip()
RECURSIVE Strip(_)
Strip(line) ==
  IF line = <<>> THEN line
  ELSE IF Head(line) = " " THEN Strip(Tail(line))
  ELSE IF line[Len(line)] = " " THEN Strip(SubSeq(line, 1, Len(line) - 1))
  ELSE line

\* ------------------------------------------------------------------------
\* State
\* ------------------------------------------------------------------------
VARIABLES
  pc,      \* where the program is: "menu", "read_c0", "read_Ka", "call", "done"
           \* in the shell; "direct", "returned" for a caller of the solver
  choice,  \* main: the stripped menu line
  c0,      \* run_weak_acid_mode: c0
  Ka,      \* run_weak_acid_mode: Ka
  system,  \* the WeakAcidSystem constructed for the call
  frame,   \* the last call of solve_equilibrium: locals, outcome, value
  prev,    \* a direct caller's earlier system and call
  out      \* what the shell printed last

vars == <<pc, choice, c0, Ka, system, frame, prev, out>>

Said(msg, shown) == [msg |-> msg, shown |-> shown]

\* ------------------------------------------------------------------------
\* The interactive shell: main and run_weak_acid_mode
\* ------------------------------------------------------------------------
Init ==
  /\ pc = "menu"
  /\ choice = None
  /\ c0 = None
  /\ Ka = None
  /\ system = None
  /\ frame = None
  /\ prev = None
  /\ out = Said("menu", None)

\* main: one line read at the menu prompt
Choose(line) ==
  /\ pc = "menu"
  /\ choice' = Strip(line)
  /\ IF choice' = <<"1">>
     THEN pc' = "read_c0" /\ out' = Said("weak acid header", None)
     ELSE IF choice' = <<"0">>
     THEN pc' = "done" /\ out' = Said("bye", None)
     ELSE pc' = "menu" /\ out' = Said("invalid option", None)
  /\ UNCHANGED <<c0, Ka, system, frame, prev>>

\* run_weak_acid_mode: c0 = float(input(...))
ReadC0(line) ==
  /\ pc = "read_c0"
  /\ IF line.numeric
     THEN pc' = "read_Ka" /\ c0' = line.val /\ out' = out
     ELSE pc' = "menu" /\ c0' = None /\ out' = Said("format error", None)
  /\ UNCHANGED <<choice, Ka, system, frame, prev>>

\* c0 <= 0 or Ka <= 0
NotPositive(c, K) == FLe(c, PosZero) \/ FLe(K, PosZero)

\* run_weak_acid_mode: Ka = float(input(...)), the positivity check and the
\* construction of the system
ReadKa(line) ==
  /\ pc = "read_Ka"
  /\ IF ~line.numeric
     THEN /\ pc' = "menu" /\ out' = Said("format error", None)
          /\ c0' = None /\ Ka' = None /\ system' = None
     ELSE IF NotPositive(c0, line.val)
     THEN /\ pc' = "menu" /\ out' = Said("must be positive", None)
          /\ c0' = None /\ Ka' = None /\ system' = None
     ELSE /\ pc' = "call" /\ out' = out
          /\ c0' = c0 /\ Ka' = line.val
          /\ system' = WeakAcidSystem(c0, line.val)
  /\ UNCHANGED <<choice, frame, prev>>

\* a call of the solver outside any try: a failure ends the process
CallSolverUncaught ==
  /\ pc = "call"
  /\ LET f == solve_equilibrium(system)
     IN  IF f.outcome = "return"
         THEN pc' = "menu" /\ out' = Said("result", f.value)
         ELSE pc' = "done" /\ out' = Said("traceback", f.outcome)
  /\ c0' = None /\ Ka' = None /\ system' = None
  /\ UNCHANGED <<choice, frame, prev>>

\* run_weak_acid_mode: system.solve_equilibrium() inside try/except
\* ValueError, the printing of the result or of the failure, and the return
\* to main's loop (the locals are gone)
CallSolver ==
  /\ pc = "call"
  /\ LET f == solve_equilibrium(system)
     IN  out' = IF f.outcome = "return"
                THEN Said("result", f.value)
                ELSE Said("failed", f.outcome)
  /\ pc' = "menu"
  /\ c0' = None /\ Ka' = None /\ system' = None
  /\ UNCHANGED <<choice, frame, prev>>

Next ==
  \/ \E line \in ChoiceLines : Choose(line)
  \/ \E line \in ConsoleLines : ReadC0(line)
  \/ \E line \in ConsoleLines : ReadKa(line)
  \/ CallSolver

Spec == Init /\ [][Next]_vars

\* the call of the solver is a step of the program, not of the user
FairSpec == Spec /\ WF_vars(CallSolver)

\* ------------------------------------------------------------------------
\* A caller that feeds the solver directly, with any pair of floats
\* ------------------------------------------------------------------------
DirectInit(C0s, Kas) ==
  /\ pc = "direct"
  /\ choice = None
  /\ c0 = None
  /\ Ka = None
  /\ system \in {WeakAcidSystem(c, K) : c \in C0s, K \in Kas}
  /\ frame = None
  /\ prev = None
  /\ out = None

DirectCall ==
  /\ pc = "direct"
  /\ frame' = solve_equilibrium(system)
  /\ pc' = "returned"
  /\ UNCHANGED <<choice, c0, Ka, system, prev, out>>

SolverInit == DirectInit(Floats, Floats)

SolverNext == DirectCall

SolverSpec == SolverInit /\ [][SolverNext]_vars

\* ------------------------------------------------------------------------
\* A caller that solves twice, holding c0 fixed: the second system has the
\* same c0 and another Ka
\* ------------------------------------------------------------------------
CallAgain(K) ==
  /\ pc = "returned"
  /\ prev = None
  /\ prev' = [system |-> system, frame |-> frame]
  /\ system' = WeakAcidSystem(system.c0, K)
  /\ frame' = solve_equilibrium(system')
  /\ UNCHANGED <<pc, choice, c0, Ka, out>>

MonoInit == DirectInit(PositiveFloats, PositiveFloats)

MonoNext ==
  \/ DirectCall
  \/ \E K \in PositiveFloats : CallAgain(K)

MonoSpec == MonoInit /\ [][MonoNext]_vars

\* ------------------------------------------------------------------------
\* Properties
\* ------------------------------------------------------------------------
Returned == pc = "returned"

\* a positive real: finite and > 0
PositiveFinite(x) == IsFinite(x) /\ FGt(x, PosZero)

\* the precondition domain of the solver: c0 > 0 and Ka > 0
InDomain == PositiveFinite(system.c0) /\ PositiveFinite(system.Ka)

HPlus(f) == f.value["[H+]"]

FAbs(x) == IF IsNaN(x) THEN x ELSE [x EXCEPT !.s = 0]

\* n * 10^(-k) <= x, exactly, for a finite x > 0 with x.e <= 0
DecimalLe(n, k, x) == BCmp(BShl(BSmall(n), -x.e), BMul(x.m, BSmall(10^k))) <= 0

\* x <= n * 10^(-k), exactly, for a finite x > 0 with x.e <= 0
LeDecimal(x, n, k) == BCmp(BMul(x.m, BSmall(10^k)), BShl(BSmall(n), -x.e)) <= 0

\* the shape of the result record of the last call
ResultShape ==
  /\ FLe(PosZero, HPlus(frame))
  /\ FLe(HPlus(frame), system.c0)
  /\ frame.value["[HA]"] = FSub(system.c0, HPlus(frame))
  /\ frame.value["[A-]"] = HPlus(frame)

\* C1: for every c0 > 0 and Ka > 0 the solver returns a result, in which
\* 0 <= [H+] <= c0, [HA] = c0 - [H+] and [A-] = [H+].
C1_ResultShape ==
  (Returned /\ InDomain) => (frame.outcome = "return" /\ ResultShape)

\* C2: for every c0 > 0 and Ka > 0 the solver returns a result, raising no
\* error of any kind, and the chosen root is strictly positive.
C2_Total ==
  (Returned /\ InDomain) =>
    (frame.outcome = "return" /\ FGt(HPlus(frame), PosZero))

\* C3: with c0 fixed and 0 < Ka1 <= Ka2, the [H+] returned for Ka2 is not
\* smaller than the [H+] returned for Ka1.
C3_Monotone ==
  ( /\ prev # None
    /\ FLe(prev.system.Ka, system.Ka)
    /\ prev.frame.outcome = "return"
    /\ frame.outcome = "return" ) =>
    FLe(HPlus(prev.frame), HPlus(frame))

\* C4: called with c0 < 0 and Ka > 0, the solver returns no result: it fails
\* with NoRealSolution or with NoPhysicalSolution.
C4_NegativeC0Fails ==
  (Returned /\ FLt(system.c0, PosZero) /\ FGt(system.Ka, PosZero)) =>
    frame.outcome \in {"NoRealSolution", "NoPhysicalSolution"}

\* c0 = -1, Ka = 1: the discriminant is -3
C4_Witness ==
  /\ Returned
  /\ system = WeakAcidSystem(Float(1, 1, 0), One)
  /\ frame.disc = Float(1, 3, 0)
  /\ frame.outcome = "NoRealSolution"

\* x lies in [0, c0]
InRange(x) == FLe(PosZero, x) /\ FLe(x, system.c0)

SomeRootInRange == \E i \in 1..Len(frame.roots) : InRange(frame.roots[i])

\* C5 as stated: for any input pair the solver fails with NoRealSolution
\* exactly when D < 0, with NoPhysicalSolution exactly when D >= 0 and
\* neither root lies in [0, c0], and in every other case returns a result.
C5_TwoKinds ==
  Returned =>
    /\ (frame.outcome = "NoRealSolution") <=> FLt(frame.disc, PosZero)
    /\ (frame.outcome = "NoPhysicalSolution") <=>
         (FLe(PosZero, frame.disc) /\ ~SomeRootInRange)
    /\ (~FLt(frame.disc, PosZero) /\ ~(FLe(PosZero, frame.disc) /\ ~SomeRootInRange)) =>
         frame.outcome = "return"

\* C5 amended: NoRealSolution exactly when D < 0; NoPhysicalSolution exactly
\* when D is not below 0 (D >= 0 or NaN) and neither root lies in [0, c0]; a
\* math domain error of the pH logarithm exactly when D is not below 0, a
\* root lies in [0, c0] and no such root is above 0; a result otherwise.
C5_ThreeKinds ==
  Returned =>
    /\ (frame.outcome = "NoRealSolution") <=> FLt(frame.disc, PosZero)
    /\ (frame.outcome = "NoPhysicalSolution") <=>
         (~FLt(frame.disc, PosZero) /\ ~SomeRootInRange)
    /\ (frame.outcome = "MathDomainError") <=>
         /\ ~FLt(frame.disc, PosZero)
         /\ SomeRootInRange
         /\ \A i \in 1..Len(frame.roots) :
              InRange(frame.roots[i]) => FLe(frame.roots[i], PosZero)
    /\ frame.outcome \in {"NoRealSolution", "NoPhysicalSolution", "MathDomainError", "return"}

\* c0 = 0, Ka = 1: D = 1, the roots are 0 and -1, and log10(0) fails
C5_Witness ==
  /\ Returned
  /\ system = WeakAcidSystem(PosZero, One)
  /\ frame.disc = One
  /\ frame.candidates = <<PosZero>>
  /\ frame.outcome = "MathDomainError"

Scenario1 == Returned /\ system = WeakAcidSystem(Tenth, AceticKa)

\* C6 as stated: for c0 = 0.1 and Ka = 1.8e-5 the [H+] returned lies between
\* 1.34035e-3 and 1.34045e-3.
C6_Scenario1 ==
  Scenario1 =>
    /\ frame.outcome = "return"
    /\ DecimalLe(134035, 8, HPlus(frame))
    /\ LeDecimal(HPlus(frame), 134045, 8)

\* C6 amended: for c0 = 0.1 and Ka = 1.8e-5 the [H+] returned is 1.3327e-3
\* to five significant digits: it lies between 1.33265e-3 and 1.33275e-3.
C6_Scenario1Root ==
  Scenario1 =>
    /\ frame.outcome = "return"
    /\ DecimalLe(133265, 8, HPlus(frame))
    /\ LeDecimal(HPlus(frame), 133275, 8)

C6_Witness == Scenario1 /\ frame.outcome = "return" /\ frame.candidates = <<frame.roots[1]>>

\* C7: in the shell a system is constructed, and the solver called, only
\* with c0 > 0 and Ka > 0.
C7_CalledOnPositive ==
  system # None => (FGt(system.c0, PosZero) /\ FGt(system.Ka, PosZero))

InTurn == pc \in {"read_c0", "read_Ka", "call"}

\* C8: no failure is fatal to the menu loop.  A turn ends only at the menu
\* prompt; the loop is left only from the menu prompt, by the choice "0", and
\* that choice always leaves it; nothing happens after that; and a call of
\* the solver, however it ends, is followed by the menu prompt.
C8_LoopSurvives ==
  /\ [][ /\ InTurn => (InTurn' \/ pc' = "menu")
         /\ (pc = "menu" /\ choice' \notin {<<"1">>, <<"0">>}) => pc' = "menu"
         /\ pc' = "done" => (pc = "menu" /\ choice' = <<"0">>)
         /\ (pc = "menu" /\ choice' = <<"0">>) => pc' = "done"
         /\ pc # "done" ]_vars
  /\ (pc = "call") ~> (pc = "menu")

\* back at the menu after a call of the solver that failed
C8_Witness == pc = "menu" /\ out.msg = "failed" /\ choice = <<"1">>

\* C9: for c0 > 0 and Ka > 0, x2 is negative, exactly one root (x1) lies in
\* [0, c0], and the candidate list is that one root.
C9_UniqueRoot ==
  (Returned /\ InDomain /\ frame.roots # <<>>) =>
    /\ FLt(frame.roots[2], PosZero)
    /\ frame.candidates = <<frame.roots[1]>>

\* allowed relative difference: 2^(-10), about one part in a thousand
Tolerance == Float(0, 1, -10)

\* |p - q| <= Tolerance * max(|p|, |q|)
Close(p, q) ==
  FLe(FAbs(FSub(p, q)),
      FMul(Tolerance, IF FLe(FAbs(p), FAbs(q)) THEN FAbs(q) ELSE FAbs(p)))

\* C10: every result returned for c0 > 0 and Ka > 0 satisfies the
\* mass-action law [H+] * [A-] = Ka * [HA] (here: to within one part in a
\* thousand of the larger side).
C10_MassAction ==
  (Returned /\ InDomain /\ frame.outcome = "return") =>
    Close(FMul(HPlus(frame), frame.value["[A-]"]),
          FMul(system.Ka, frame.value["[HA]"]))
====
